---- MODULE Spec2Model ----
(***************************************************************************)
(* Model of renderer/ShaderProgram.h: Shader, VertexBuffer,                *)
(* OrphaningVertexBuffer and ShaderProgram, seen as one ShaderProgram      *)
(* object going through construction, use and destruction, together with   *)
(* the log of graphics-driver calls it issues.                             *)
(***************************************************************************)
EXTENDS Integers, Sequences, FiniteSets, TLC

\* ---------------------------------------------------------------- bounds
MaxAttribs == 2      \* longest vertex-attribute list passed to the constructor
MaxCalls == 3        \* AddVertexData calls explored on one object

\* ------------------------------------------------------ program constants
kVertexCount == 65536

\* Handles the driver hands out when a creation call succeeds (0 = failure).
ProgramHandle == 1
VertexShaderHandle == 2
FragmentShaderHandle == 3
VaoHandle == 4
VboHandle == 5

ShaderKinds == {"vertex", "fragment"}
UniformNames == {"u_transform", "u_texture"}
AttribNames == <<"in_pos", "in_color", "in_uv">>

\* Batch sizes offered to AddVertexData: empty, a quarter and a half of the
\* capacity, the capacity, and one more than the capacity.
BatchSizes ==
  {0, kVertexCount \div 4, kVertexCount \div 2, kVertexCount, kVertexCount + 1}

\* Attribute lists offered to the constructor: the first n attribute names.
AttribLists == {SubSeq(AttribNames, 1, n) : n \in 0..MaxAttribs}

VARIABLES
  pc,              \* position in the object's life
  attribs,         \* constructor argument: names of the vertex attributes
  id_,             \* ShaderProgram::id_
  shader_id,       \* Shader::id_ of vertex_ and fragment_
  compile_result,  \* what dglGetShaderiv reported, per shader
  link_result,     \* what dglGetProgramiv reported
  vao_, vbo_,      \* VertexBuffer::vao_, VertexBuffer::vbo_
  events,          \* driver calls of construction and destruction, in order
  uniformLoc,      \* the driver's name -> location table of the linked program
  uniform_cache_,  \* ShaderProgram::uniform_cache_
  queryCount,      \* dglGetUniformLocation calls made, per name
  used,            \* names some setUniform* call has used
  lastUniform,     \* outcome of the latest setUniform* call
  nextVertex_,     \* OrphaningVertexBuffer::nextVertex_
  addCalls,        \* AddVertexData calls made
  lastAdd,         \* outcome of the latest AddVertexData call
  prevAdd,         \* outcome of the call before it
  written          \* ranges written since the backing store was last allocated

vars == <<pc, attribs, id_, shader_id, compile_result, link_result, vao_, vbo_,
          events, uniformLoc, uniform_cache_, queryCount, used, lastUniform,
          nextVertex_, addCalls, lastAdd, prevAdd, written>>

ctorVars == <<attribs, id_, shader_id, compile_result, link_result, vao_, vbo_,
              events, uniformLoc>>
uniformVars == <<uniform_cache_, queryCount, used, lastUniform>>
bufferVars == <<nextVertex_, addCalls, lastAdd, prevAdd, written>>

\* ------------------------------------------------------------ driver log
Ev(op, h, arg, name) == [op |-> op, h |-> h, arg |-> arg, name |-> name]

ShaderHandle(kind) ==
  IF kind = "vertex" THEN VertexShaderHandle ELSE FragmentShaderHandle

\* ------------------------------------------------------------- deleters
DeleteBuffer(id) == <<Ev("dglDeleteBuffers", id, 1, "")>>

DeleteVertexArray(id) == <<Ev("dglDeleteVertexArrays", id, 1, "")>>

DeleteShaderLeak(id) == <<>>

DeleteShader(id) == <<Ev("dglDeleteShader", id, 0, "")>>

DeleteProgram(id) == <<Ev("dglDeleteProgram", id, 0, "")>>

\* MoveOnlyHolder<T, Deleter>::~MoveOnlyHolder (holder.h): the destruction of
\* a holder hands the held value to the deleter; deleted is what the deleter
\* does with it.
HolderDestroy(held, deleted) == deleted

\* ~VertexBuffer: members go in reverse order of declaration (vbo_, vao_).
DestroyVertexBuffer(vao, vbo) ==
  HolderDestroy(vbo, DeleteBuffer(vbo)) \o HolderDestroy(vao, DeleteVertexArray(vao))

\* ~Shader
DestroyShader(id) == HolderDestroy(id, DeleteShader(id))

\* Destruction of the ShaderProgram members constructed so far, in reverse
\* order of declaration (id_, vertex_, fragment_, vbo_, uniform_cache_).
\* built is the number of members whose construction completed.
DestroyMembers(built, prog, vs, fs, vao, vbo) ==
  (IF built >= 4 THEN DestroyVertexBuffer(vao, vbo) ELSE <<>>)
    \o (IF built >= 3 THEN DestroyShader(fs) ELSE <<>>)
    \o (IF built >= 2 THEN DestroyShader(vs) ELSE <<>>)
    \o (IF built >= 1 THEN HolderDestroy(prog, DeleteProgram(prog)) ELSE <<>>)

\* ------------------------------------------------------------- Shader
ShaderCompileUnchecked(result) == FALSE

\* Shader::Shader, the test of the compile status
ShaderCompileFailed(result) == result # TRUE

\* Shader::Shader: driver calls made for a shader of the given kind when
\* dglCreateShader returns h and the compile status read back is result;
\* threw tells whether the constructor ended with a throw, in which case
\* the already constructed member id_ has been destroyed.
ConstructShader(kind, h, result) ==
  LET create == <<Ev("dglCreateShader", h, 0, kind)>>
      compile == <<Ev("dglShaderSource", h, 1, kind),
                   Ev("dglCompileShader", h, 0, kind),
                   Ev("dglGetShaderiv", h, 0, kind)>>
  IN  IF h = 0
        THEN [threw |-> TRUE, status |-> "none",
              evs |-> create \o DestroyShader(h)]
      ELSE IF ShaderCompileFailed(result)
        THEN [threw |-> TRUE, status |-> "fail",
              evs |-> create \o compile
                        \o <<Ev("dglGetShaderInfoLog", h, 1024, kind)>>
                        \o DestroyShader(h)]
      ELSE [threw |-> FALSE, status |-> IF result THEN "ok" ELSE "fail",
            evs |-> create \o compile]

\* ---------------------------------------------------------- VertexBuffer
RECURSIVE AttribEventsNoBind(_, _, _)
AttribEventsNoBind(program, as, i) ==
  IF i > Len(as) THEN <<>>
  ELSE <<Ev("dglEnableVertexAttribArray", 0, i - 1, ""),
         Ev("dglVertexAttribPointer", 0, i - 1, "")>>
         \o AttribEventsNoBind(program, as, i + 1)

\* VertexBuffer::VertexBuffer, the loop over the attributes; the source's
\* index is i - 1.
RECURSIVE AttribEvents(_, _, _)
AttribEvents(program, as, i) ==
  IF i > Len(as) THEN <<>>
  ELSE <<Ev("dglEnableVertexAttribArray", 0, i - 1, ""),
         Ev("dglVertexAttribPointer", 0, i - 1, ""),
         Ev("dglBindAttribLocation", program, i - 1, as[i])>>
         \o AttribEvents(program, as, i + 1)

\* VertexBuffer::VertexBuffer (through OrphaningVertexBuffer's constructor,
\* which passes kVertexCount and kBufferType)
ConstructVertexBuffer(program, as) ==
  <<Ev("dglGenVertexArrays", VaoHandle, 1, ""),
    Ev("dglGenBuffers", VboHandle, 1, ""),
    Ev("dglBindVertexArray", VaoHandle, 0, ""),
    Ev("dglBindBuffer", VboHandle, 0, ""),
    Ev("dglBufferData", VboHandle, kVertexCount, "")>>
    \o AttribEvents(program, as, 1)

\* --------------------------------------------------------------- Init
NoUniformCall ==
  [fn |-> "none", name |-> "", threw |-> FALSE, issued |-> FALSE,
   loc |-> 0, queried |-> FALSE, first |-> FALSE]

NoAddCall ==
  [called |-> FALSE, dist |-> 0, before |-> 0, orphaned |-> FALSE,
   start |-> 0, ret |-> 0, after |-> 0, ops |-> <<>>]

Init ==
  /\ pc = "start"
  /\ attribs = <<>>
  /\ id_ = 0
  /\ shader_id = [k \in ShaderKinds |-> 0]
  /\ compile_result = [k \in ShaderKinds |-> "none"]
  /\ link_result = "none"
  /\ vao_ = 0
  /\ vbo_ = 0
  /\ events = <<>>
  /\ uniformLoc = [n \in UniformNames |-> -1]
  /\ uniform_cache_ = [n \in {} |-> 0]
  /\ queryCount = [n \in UniformNames |-> 0]
  /\ used = {}
  /\ lastUniform = NoUniformCall
  /\ nextVertex_ = 0
  /\ addCalls = 0
  /\ lastAdd = NoAddCall
  /\ prevAdd = NoAddCall
  /\ written = <<>>

\* ------------------------------------------- ShaderProgram::ShaderProgram
\* Member initialiser id_{dglCreateProgram()}
CreateProgram ==
  /\ pc = "start"
  /\ \E h \in {0, ProgramHandle}, as \in AttribLists :
       /\ id_' = h
       /\ attribs' = as
       /\ events' = Append(events, Ev("dglCreateProgram", h, 0, ""))
  /\ pc' = "id_"
  /\ UNCHANGED <<shader_id, compile_result, link_result, vao_, vbo_, uniformLoc>>
  /\ UNCHANGED uniformVars
  /\ UNCHANGED bufferVars

\* Member initialisers vertex_{vertexSrc} and fragment_{fragmentSrc}. When
\* the Shader constructor throws, the members of the ShaderProgram built so
\* far are destroyed and construction ends.
InitShader(kind, at, built, next) ==
  /\ pc = at
  /\ \E h \in {0, ShaderHandle(kind)}, result \in BOOLEAN :
       LET r == ConstructShader(kind, h, result)
       IN  /\ shader_id' = [shader_id EXCEPT ![kind] = h]
           /\ compile_result' = [compile_result EXCEPT ![kind] = r.status]
           /\ IF r.threw
                THEN /\ events' = events \o r.evs
                                    \o DestroyMembers(built, id_,
                                         shader_id["vertex"],
                                         shader_id["fragment"], vao_, vbo_)
                     /\ pc' = "failed"
                ELSE /\ events' = events \o r.evs
                     /\ pc' = next
  /\ UNCHANGED <<attribs, id_, link_result, vao_, vbo_, uniformLoc>>
  /\ UNCHANGED uniformVars
  /\ UNCHANGED bufferVars

InitVertexShader == InitShader("vertex", "id_", 1, "vertex_")

InitFragmentShader == InitShader("fragment", "vertex_", 2, "fragment_")

\* Member initialiser vbo_{id_, std::move(attribs)}
InitVbo ==
  /\ pc = "fragment_"
  /\ vao_' = VaoHandle
  /\ vbo_' = VboHandle
  /\ events' = events \o ConstructVertexBuffer(id_, attribs)
  /\ pc' = "vbo_"
  /\ UNCHANGED <<attribs, id_, shader_id, compile_result, link_result, uniformLoc>>
  /\ UNCHANGED uniformVars
  /\ UNCHANGED bufferVars

\* The constructor's body: the test of id_, attach, link, the test of the
\* link status. A throw destroys all five members.
CtorBody ==
  /\ pc = "vbo_"
  /\ LET unwind == DestroyMembers(4, id_, shader_id["vertex"],
                                  shader_id["fragment"], vao_, vbo_)
         link == <<Ev("dglAttachShader", id_, shader_id["vertex"], ""),
                   Ev("dglAttachShader", id_, shader_id["fragment"], ""),
                   Ev("dglLinkProgram", id_, 0, ""),
                   Ev("dglGetProgramiv", id_, 0, "")>>
     IN  IF id_ = 0
           THEN /\ events' = events \o unwind
                /\ pc' = "failed"
                /\ UNCHANGED <<link_result, uniformLoc>>
           ELSE \E linked \in BOOLEAN :
                  IF linked # TRUE
                    THEN /\ events' = events \o link
                                        \o <<Ev("dglGetProgramInfoLog", id_, 1024, "")>>
                                        \o unwind
                         /\ link_result' = "fail"
                         /\ pc' = "failed"
                         /\ UNCHANGED uniformLoc
                    ELSE /\ events' = events \o link
                         /\ link_result' = "ok"
                         /\ pc' = "constructed"
                         /\ \E active \in SUBSET UniformNames :
                              uniformLoc' = [n \in UniformNames |->
                                               IF n \in active
                                                 THEN IF n = "u_transform" THEN 0 ELSE 1
                                                 ELSE -1]
  /\ UNCHANGED <<attribs, id_, shader_id, compile_result, vao_, vbo_>>
  /\ UNCHANGED uniformVars
  /\ UNCHANGED bufferVars

\* ~ShaderProgram (implicit): the members are destroyed in reverse order.
\* The cache, the cursor and the record of the calls made on the object go
\* with it, and so does the program's location table.
Destroy ==
  /\ pc = "constructed"
  /\ events' = events \o DestroyMembers(4, id_, shader_id["vertex"],
                                        shader_id["fragment"], vao_, vbo_)
  /\ pc' = "destroyed"
  /\ uniformLoc' = [n \in UniformNames |-> -1]
  /\ uniform_cache_' = [n \in {} |-> 0]
  /\ queryCount' = [n \in UniformNames |-> 0]
  /\ used' = {}
  /\ lastUniform' = NoUniformCall
  /\ nextVertex_' = 0
  /\ addCalls' = 0
  /\ lastAdd' = NoAddCall
  /\ prevAdd' = NoAddCall
  /\ written' = <<>>
  /\ UNCHANGED <<attribs, id_, shader_id, compile_result, link_result, vao_, vbo_>>

\* ------------------------------------------------------- uniform setters
CacheNeverHit(cache, name) == FALSE

\* getUniformId: uniform_cache_.find(name) != uniform_cache_.end()
CacheHit(cache, name) == name \in DOMAIN cache

\* std::unordered_map::emplace: inserts unless the key is present
Emplace(cache, name, value) ==
  [n \in DOMAIN cache \cup {name} |->
     IF n \in DOMAIN cache THEN cache[n] ELSE value]

\* ShaderProgram::getUniformId
getUniformId(cache, name) ==
  IF CacheHit(cache, name)
    THEN [cache |-> cache, ret |-> cache[name], threw |-> FALSE,
          queried |-> FALSE]
    ELSE LET c == Emplace(cache, name, uniformLoc[name])
         IN  [cache |-> c, ret |-> c[name], threw |-> ~(c[name] # -1),
              queried |-> TRUE]

\* The common shape of the four setters: dglUniformXX(getUniformId(name), ...).
\* The argument is evaluated first; when it throws, the driver call is not
\* made.
SetUniform(fn, name) ==
  /\ pc = "constructed"
  /\ LET r == getUniformId(uniform_cache_, name)
     IN  /\ uniform_cache_' = r.cache
         /\ queryCount' = IF r.queried
                            THEN [queryCount EXCEPT ![name] = @ + 1]
                            ELSE queryCount
         /\ lastUniform' = [fn |-> fn, name |-> name, threw |-> r.threw,
                            issued |-> ~r.threw, loc |-> r.ret,
                            queried |-> r.queried, first |-> name \notin used]
  /\ used' = used \cup {name}
  /\ UNCHANGED pc
  /\ UNCHANGED ctorVars
  /\ UNCHANGED bufferVars

setUniformMat4f == \E name \in UniformNames : SetUniform("dglUniformMatrix4fv", name)

setUniform1i == \E name \in UniformNames : SetUniform("dglUniform1i", name)

setUniform1f == \E name \in UniformNames : SetUniform("dglUniform1f", name)

setUniform4fv == \E name \in UniformNames : SetUniform("dglUniform4f", name)

\* ------------------------------------ OrphaningVertexBuffer::AddVertexData
OrphansIgnoringBatch(next, dist) == next >= kVertexCount

\* the test that decides to reallocate the backing store
Orphans(next, dist) == next + dist >= kVertexCount

CursorAfterNoAdvance(start, dist) == dist

\* nextVertex_ += dist
CursorAfter(start, dist) == start + dist

AddVertexData ==
  /\ pc = "constructed"
  /\ addCalls < MaxCalls
  /\ \E dist \in BatchSizes :
       LET orphan == Orphans(nextVertex_, dist)
           cursor == IF orphan THEN 0 ELSE nextVertex_
           start == cursor
           ops == <<"dglBindBuffer">>
                    \o (IF orphan THEN <<"dglBufferData", "nextVertex_ = 0">> ELSE <<>>)
                    \o <<"dglMapBufferRange", "copy", "dglUnmapBuffer">>
       IN  /\ nextVertex_' = CursorAfter(cursor, dist)
           /\ lastAdd' = [called |-> TRUE, dist |-> dist, before |-> nextVertex_,
                          orphaned |-> orphan, start |-> start, ret |-> start,
                          after |-> CursorAfter(cursor, dist), ops |-> ops]
           /\ written' = IF orphan
                           THEN <<[start |-> start, dist |-> dist]>>
                           ELSE Append(written, [start |-> start, dist |-> dist])
  /\ prevAdd' = lastAdd
  /\ addCalls' = addCalls + 1
  /\ UNCHANGED pc
  /\ UNCHANGED ctorVars
  /\ UNCHANGED uniformVars

\* ----------------------------------------------------------------- Next
Next ==
  \/ CreateProgram
  \/ InitVertexShader
  \/ InitFragmentShader
  \/ InitVbo
  \/ CtorBody
  \/ Destroy
  \/ setUniformMat4f
  \/ setUniform1i
  \/ setUniform1f
  \/ setUniform4fv
  \/ AddVertexData

Spec == Init /\ [][Next]_vars

\* ------------------------------------------------------- derived notions
EventIndices(op) == {i \in DOMAIN events : events[i].op = op}

DeleteOps ==
  {"dglDeleteProgram", "dglDeleteShader", "dglDeleteBuffers", "dglDeleteVertexArrays"}

CreateOps ==
  {"dglCreateProgram", "dglCreateShader", "dglGenVertexArrays", "dglGenBuffers"}

\* the non-zero handles the driver has handed out
CreatedHandles ==
  {events[i].h : i \in {j \in DOMAIN events :
                          events[j].op \in CreateOps /\ events[j].h # 0}}

DeleteCount(h) ==
  Cardinality({i \in DOMAIN events : events[i].op \in DeleteOps /\ events[i].h = h})

Ended == pc \in {"failed", "destroyed"}

\* ------------------------------------------------------------- claims

\* C1: for a name the driver reports at location -1, every setUniform* call
\* with that name, the first and every later one, throws and issues no
\* uniform-set driver call.
C1_MissingUniformAlwaysThrows ==
  (lastUniform.fn # "none" /\ uniformLoc[lastUniform.name] = -1)
    => (lastUniform.threw /\ ~lastUniform.issued)

\* C2: when the batch does not fit after the cursor (nextVertex_ + dist >
\* kVertexCount), AddVertexData reallocates the backing store and resets the
\* cursor before mapping, writes the batch at offset 0, returns 0 and leaves
\* the cursor at dist.
C2_OverflowOrphansAndResets ==
  (lastAdd.called /\ lastAdd.before + lastAdd.dist > kVertexCount)
    => /\ lastAdd.orphaned
       /\ \E i, j, k \in DOMAIN lastAdd.ops :
            /\ lastAdd.ops[i] = "dglBufferData"
            /\ lastAdd.ops[j] = "nextVertex_ = 0"
            /\ lastAdd.ops[k] = "dglMapBufferRange"
            /\ i < k /\ j < k
       /\ lastAdd.start = 0
       /\ lastAdd.ret = 0
       /\ lastAdd.after = lastAdd.dist
       /\ nextVertex_ = lastAdd.dist

C2_Witness ==
  /\ lastAdd.called
  /\ lastAdd.before > 0
  /\ lastAdd.before < kVertexCount
  /\ lastAdd.before + lastAdd.dist > kVertexCount

\* C3: construction queries no uniform location; over any sequence of
\* setUniform* calls the driver is asked for a name's location at most once,
\* at the first call that uses the name, and later calls use the cache.
C3_LazyCacheQueriesOnce ==
  /\ pc # "constructed"
       => \A n \in UniformNames : queryCount[n] = 0 /\ n \notin DOMAIN uniform_cache_
  /\ \A n \in UniformNames :
       /\ queryCount[n] <= 1
       /\ (queryCount[n] = 1) <=> (n \in used)
       /\ (n \in used) <=> (n \in DOMAIN uniform_cache_)
       /\ n \in DOMAIN uniform_cache_ => uniform_cache_[n] = uniformLoc[n]
  /\ lastUniform.fn # "none" => (lastUniform.queried <=> lastUniform.first)

C3_Witness ==
  /\ lastUniform.fn # "none"
  /\ ~lastUniform.first
  /\ ~lastUniform.queried
  /\ lastUniform.loc # -1
  /\ queryCount[lastUniform.name] = 1

\* C4: whatever the outcome of construction, every non-zero handle that was
\* created is deleted exactly once, and none is deleted while the object
\* that owns it is under construction or alive.
C4_HandlesDeletedExactlyOnce ==
  /\ \A h \in CreatedHandles : DeleteCount(h) <= 1
  /\ Ended => \A h \in CreatedHandles : DeleteCount(h) = 1
  /\ ~Ended => \A h \in CreatedHandles : DeleteCount(h) = 0

C4_Witness ==
  /\ pc = "failed"
  /\ link_result = "fail"
  /\ CreatedHandles = {ProgramHandle, VertexShaderHandle, FragmentShaderHandle,
                       VaoHandle, VboHandle}

\* C5: construction completes without a throw exactly when the program
\* handle and both shader handles are non-zero, both shaders compiled and the
\* program linked; otherwise it ends with a throw, no object exists
\* afterwards, and no step is made a second time.
AllStepsSucceeded ==
  /\ id_ # 0
  /\ \A k \in ShaderKinds : shader_id[k] # 0 /\ compile_result[k] = "ok"
  /\ link_result = "ok"

C5_ConstructedIffAllSucceeded ==
  /\ pc \in {"constructed", "destroyed"} => AllStepsSucceeded
  /\ pc = "failed" => ~AllStepsSucceeded
  /\ pc = "failed" => /\ lastUniform.fn = "none"
                      /\ addCalls = 0
                      /\ ~ENABLED Next
  /\ Cardinality(EventIndices("dglCreateProgram")) <= 1
  /\ Cardinality(EventIndices("dglLinkProgram")) <= 1
  /\ \A k \in ShaderKinds :
       /\ Cardinality({i \in EventIndices("dglCreateShader") : events[i].name = k}) <= 1
       /\ Cardinality({i \in EventIndices("dglCompileShader") : events[i].name = k}) <= 1

C5_Witness ==
  /\ pc = "constructed"
  /\ AllStepsSucceeded

\* C6: of two consecutive AddVertexData calls where the second does not
\* reallocate, the second starts where the first ended; the ranges written
\* since the last reallocation are contiguous and pairwise disjoint.
C6_CursorAdvancesBetweenOrphanings ==
  /\ (prevAdd.called /\ lastAdd.called /\ ~lastAdd.orphaned)
       => lastAdd.ret = prevAdd.ret + prevAdd.dist
  /\ \A i \in 1..(Len(written) - 1) :
       written[i + 1].start = written[i].start + written[i].dist
  /\ \A i, j \in DOMAIN written :
       i < j => written[i].start + written[i].dist <= written[j].start

C6_Witness ==
  /\ prevAdd.called
  /\ lastAdd.called
  /\ ~lastAdd.orphaned
  /\ prevAdd.dist > 0
  /\ lastAdd.dist > 0
  /\ Len(written) >= 2

\* C7: for batches of any size, the range [start, start + dist) that is
\* mapped and written lies inside the kVertexCount vertices of the buffer,
\* and the cursor never exceeds kVertexCount after a call.
C7_WritesStayInsideBuffer ==
  /\ lastAdd.called => lastAdd.start + lastAdd.dist <= kVertexCount
  /\ nextVertex_ <= kVertexCount

\* C8: a call whose batch fits in the remaining capacity (nextVertex_ + dist
\* <= kVertexCount, the exact fit included) does not reallocate, does not
\* reset the cursor, and writes at the cursor held before the call.
C8_NoOrphaningWhenBatchFits ==
  (lastAdd.called /\ lastAdd.before + lastAdd.dist <= kVertexCount)
    => /\ ~lastAdd.orphaned
       /\ lastAdd.start = lastAdd.before
       /\ lastAdd.ret = lastAdd.before

\* C9: when program creation returns the zero handle, construction throws
\* before any driver call that takes the program handle (binding an attribute
\* location, attaching, linking), before any shader is compiled and before
\* any buffer is allocated.
C9_ZeroProgramThrowsFirst ==
  (pc # "start" /\ id_ = 0)
    => \A i \in DOMAIN events :
         events[i].op \notin {"dglBindAttribLocation", "dglAttachShader",
                              "dglLinkProgram", "dglCompileShader",
                              "dglGenBuffers", "dglBufferData"}

\* C10: in a construction that reaches the link step, both shaders were
\* compiled successfully, then every attribute i was bound to location i
\* under its name, then both shaders were attached, then the program was
\* linked; nothing is bound after the link, and the link is not attempted
\* when a shader failed to compile.
C10_CompileBindAttachLinkOrder ==
  \A l \in EventIndices("dglLinkProgram") :
    /\ \A k \in ShaderKinds :
         /\ compile_result[k] = "ok"
         /\ \E c \in EventIndices("dglGetShaderiv") :
              /\ events[c].name = k
              /\ events[c].h = shader_id[k]
              /\ \A b \in EventIndices("dglBindAttribLocation") : c < b
              /\ \E a \in EventIndices("dglAttachShader") :
                   /\ events[a].h = id_
                   /\ events[a].arg = shader_id[k]
                   /\ c < a /\ a < l
                   /\ \A b \in EventIndices("dglBindAttribLocation") : b < a
    /\ \A i \in DOMAIN attribs :
         \E b \in EventIndices("dglBindAttribLocation") :
           /\ events[b] = Ev("dglBindAttribLocation", id_, i - 1, attribs[i])
           /\ b < l
    /\ \A b \in EventIndices("dglBindAttribLocation") :
         /\ b < l
         /\ events[b].arg + 1 \in DOMAIN attribs
         /\ events[b].name = attribs[events[b].arg + 1]
    /\ events[l].h = id_

C10_Witness ==
  /\ EventIndices("dglLinkProgram") # {}
  /\ Len(attribs) >= 2
  /\ pc = "constructed"

====
